---- MODULE Spec2Model ----
(***************************************************************************)
(* Model of vtil::math::operable (src/math/operable.hpp): the operand      *)
(* wrapper around a bit-precise value, the compile-time cross-operability  *)
(* resolution, and the catalogue of operator overloads that forward to the *)
(* derived type's constructors.                                            *)
(*                                                                         *)
(* A 64-bit word is a set of bit positions (the positions holding 1), so   *)
(* that uint64_t keeps its full width.                                     *)
(***************************************************************************)
EXTENDS Integers, Sequences, FiniteSets, TLC

VARIABLES
    value,    \* operable::value, the wrapper's bit_vector
    origin,   \* how the wrapper was built: "default", "integer" or "derived"
    aborted,  \* a failed fassert ended the program
    ret,      \* the last wrapper call: its arguments, the value before it, its result
    res,      \* the last type resolution
    objs,     \* the caller's operand objects
    call      \* the last operator call

vars == <<value, origin, aborted, ret, res, objs, call>>

\* ------------------------------------------------------------ bounds
\* Bit widths 1..MaxSmallWidth are tried next to the natural widths.
MaxSmallWidth == 3
\* Every combination of the LowBits lowest bits is tried in an integer's pattern.
LowBits == 1

\* ------------------------------------------------------------ words
\* uint64_t
WordBits == 64
\* sizeof( T ) * 8
ByteBits == 8

Word == 0..(WordBits - 1)
fill(n) == 0..(n - 1)

\* ------------------------------------------------------------ native integers
\* The integral types (std::is_integral_v) with sizeof and signedness.
IntTypes ==
    {"bool", "int8_t", "uint8_t", "int16_t", "uint16_t",
     "int32_t", "uint32_t", "int64_t", "uint64_t"}

sizeof(T) ==
    CASE T \in {"bool", "int8_t", "uint8_t"} -> 1
      [] T \in {"int16_t", "uint16_t"} -> 2
      [] T \in {"int32_t", "uint32_t"} -> 4
      [] T \in {"int64_t", "uint64_t"} -> 8

is_signed(T) == T \in {"int8_t", "int16_t", "int32_t", "int64_t"}

NaturalWidth(T) == sizeof(T) * ByteBits

\* Object representations tried for a type: zero, one, the extremes, minus one, ...
Patterns(T) ==
    IF T = "bool" THEN {{}, {0}}
    ELSE LET W == NaturalWidth(T)
         IN  {S \cup M : S \in SUBSET (fill(LowBits) \cup {W - 1}),
                         M \in {{}, LowBits..(W - 2)}}

\* A native integer: its type and the bits of its object representation.
NativeInts == UNION {{[type |-> T, bits |-> p] : p \in Patterns(T)} : T \in IntTypes}

\* Bit i of the mathematical integer a denotes, in two's complement of any length.
TwosBit(a, i) ==
    IF i < NaturalWidth(a.type) THEN i \in a.bits
    ELSE is_signed(a.type) /\ (NaturalWidth(a.type) - 1) \in a.bits

\* a truncated to w bits.
Truncated(a, w) == {i \in fill(w) : TwosBit(a, i)}

\* uint64_t( value ): the value modulo 2^64, so a signed source is sign-extended
\* and an unsigned one zero-extended.
ToUint64_ZeroExtends(a) == a.bits
ToUint64(a) ==
    a.bits \cup
    (IF is_signed(a.type) /\ (NaturalWidth(a.type) - 1) \in a.bits
     THEN NaturalWidth(a.type)..(WordBits - 1) ELSE {})

\* Bit counts tried for a declared or a new width.
Widths == (1..MaxSmallWidth) \cup {7, 8, 9, 16, 32, 63, 64}

\* ------------------------------------------------------------ bit_vector
\* math::bit_vector (bitwise.hpp): the width and, per bit, known one, known zero
\* or unknown.
default_bit_vector == [bit_count |-> 0, known_one |-> {}, known_zero |-> {}]

bit_vector(v, n) ==
    [bit_count |-> n, known_one |-> v \cap fill(n), known_zero |-> fill(n) \ v]

bv_size(bv) == bv.bit_count
bv_known_one(bv) == bv.known_one
bv_known_zero(bv) == bv.known_zero
bv_known_mask(bv) == bv.known_one \cup bv.known_zero
bv_unknown_mask(bv) == fill(bv.bit_count) \ bv_known_mask(bv)
bv_is_known(bv) == bv_unknown_mask(bv) = {}

sign_extend(v, n) ==
    IF n > 0 /\ (n - 1) \in v THEN v \cup (n..(WordBits - 1)) ELSE v

\* A 64-bit word converted to the integer type T.
ConvertTo(T, v) ==
    [type |-> T,
     bits |-> IF T = "bool" THEN (IF v = {} THEN {} ELSE {0})
              ELSE v \cap fill(NaturalWidth(T))]

None == [type |-> "nullopt", bits |-> {}]

\* bit_vector::get<type>(): nullopt while any bit is unknown.
bv_get(bv, T) ==
    IF ~bv_is_known(bv) THEN None
    ELSE IF is_signed(T) THEN ConvertTo(T, sign_extend(bv.known_one, bv.bit_count))
    ELSE ConvertTo(T, bv.known_one)

\* bit_vector::resize( new_size, sign_extend ), defined for a fully known value.
bv_resize(bv, new_size, sext) ==
    IF sext /\ new_size > bv.bit_count
    THEN bit_vector(sign_extend(bv.known_one, bv.bit_count), new_size)
    ELSE bit_vector(bv.known_one, new_size)

\* The bit vectors a derived type may hold: any width, any bits unknown.
BitVectors ==
    UNION {{[bit_count |-> w,
             known_one |-> (p \cap fill(w)) \ u,
             known_zero |-> fill(w) \ (p \cup u)] :
              p \in Patterns("uint64_t"),
              u \in {{}, {0}, {w - 1}, fill(w)}} : w \in Widths}

\* fassert( cond ): the program goes on only when cond holds.
fassert(cond) == cond

\* ------------------------------------------------------------ operable
\* operable( T value, bitcnt_t bit_count = sizeof( T ) * 8 )
DefaultBitCount(T) == sizeof(T) * ByteBits

operable(a, bit_count) == bit_vector(ToUint64(a), bit_count)

\* The read accessors redirect to the bit_vector.
size(v) == bv_size(v)
known_mask(v) == bv_known_mask(v)
unknown_mask(v) == bv_unknown_mask(v)
known_one(v) == bv_known_one(v)
known_zero(v) == bv_known_zero(v)
is_constant(v) == bv_is_known(v)

\* get<type>()
get_AssumesKnown(v, T) == bv_get(bit_vector(v.known_one, v.bit_count), T)
get(v, T) == bv_get(v, T)

\* get<as_signed>(), type = as_signed ? int64_t : uint64_t
get_as_type(as_signed) == IF as_signed THEN "int64_t" ELSE "uint64_t"
get_as(v, as_signed) == bv_get(v, get_as_type(as_signed))

\* resize( new_size, sign_extend ): the value after the call and whether the
\* fassert failed.
resize_NoAssert(v, new_size, sext) ==
    [value |-> bv_resize(v, new_size, sext), aborted |-> FALSE]
resize_DropsSignExtend(v, new_size, sext) ==
    IF fassert(bv_is_known(v))
    THEN [value |-> bv_resize(v, new_size, FALSE), aborted |-> FALSE]
    ELSE [value |-> v, aborted |-> TRUE]
resize(v, new_size, sext) ==
    IF fassert(bv_is_known(v))
    THEN [value |-> bv_resize(v, new_size, sext), aborted |-> FALSE]
    ELSE [value |-> v, aborted |-> TRUE]

NoArg == [type |-> "none", bits |-> {}]
NoRet == [op |-> "none", pre |-> default_bit_vector, a |-> NoArg, n |-> 0,
          flag |-> FALSE, out |-> NoArg]

\* operable w( a, bit_count );
Constructed(a, bit_count) ==
    /\ value = operable(a, bit_count)
    /\ origin = "integer"
    /\ ret = [NoRet EXCEPT !.op = "operable", !.a = a, !.n = bit_count]

\* operable w( a );
ConstructedNatural(a) ==
    /\ value = operable(a, DefaultBitCount(a.type))
    /\ origin = "integer"
    /\ ret = [NoRet EXCEPT !.op = "operable_natural", !.a = a]

\* operable w;
ConstructedDefault ==
    /\ value = default_bit_vector
    /\ origin = "default"
    /\ ret = [NoRet EXCEPT !.op = "operable_default"]

\* A derived type's constructor: operable() and then the value it computed.
ConstructedDerived(bv) ==
    /\ value = bv
    /\ origin = "derived"
    /\ ret = [NoRet EXCEPT !.op = "derived"]

\* w.resize( new_size, sext );
Resize(new_size, sext) ==
    /\ ~aborted
    /\ LET r == resize(value, new_size, sext)
       IN  /\ value' = r.value
           /\ aborted' = r.aborted
    /\ ret' = [NoRet EXCEPT !.op = "resize", !.pre = value, !.n = new_size, !.flag = sext]
    /\ UNCHANGED <<origin, res, objs, call>>

\* w.get<T>();
Get(T) ==
    /\ ~aborted
    /\ ret' = [NoRet EXCEPT !.op = "get", !.pre = value, !.a = [type |-> T, bits |-> {}],
                            !.out = get(value, T)]
    /\ UNCHANGED <<value, origin, aborted, res, objs, call>>

\* w.get<as_signed>();
GetAs(as_signed) ==
    /\ ~aborted
    /\ ret' = [NoRet EXCEPT !.op = "get_as", !.pre = value, !.flag = as_signed,
                            !.out = get_as(value, as_signed)]
    /\ UNCHANGED <<value, origin, aborted, res, objs, call>>

NextWrapper ==
    \/ \E n \in Widths, sext \in BOOLEAN : Resize(n, sext)
    \/ \E T \in IntTypes : Get(T)
    \/ \E s \in BOOLEAN : GetAs(s)

\* ------------------------------------------------------------ types
\* The class types of a client program and, for each, all of its base classes:
\*   struct A : operable<A>;  struct B : operable<B>;
\*   struct D : A;            struct E : operable<A>;
\*   struct S;                struct AliasA, with resolve_alias<AliasA>::type = A.
Operable(T) == "operable<" \o T \o ">"

ClassTypes == {"A", "B", "D", "E", "S", "AliasA"}

BasesOf(T) ==
    CASE T = "A" -> {Operable("A")}
      [] T = "B" -> {Operable("B")}
      [] T = "D" -> {"A", Operable("A")}
      [] T = "E" -> {Operable("A")}
      [] OTHER -> {}

\* The unqualified types: the integral types, the class types and a floating type.
BaseTypes == IntTypes \cup ClassTypes \cup {"double"}

\* A type with its qualifiers: const, and no reference, & or &&.
Refs == {"", "&", "&&"}
Types == [base : BaseTypes, const : BOOLEAN, ref : Refs]

is_integral_v(T) == T \in IntTypes
is_same_v(T1, T2) == T1 = T2
is_base_of_v(Base, Derived) == Derived \in ClassTypes /\ (Base = Derived \/ Base \in BasesOf(Derived))

\* is_custom_operable_v<T> = std::is_base_of_v<operable<T>, T>
is_custom_operable_v(T) == is_base_of_v(Operable(T), T)

\* is_operable_v<T>
is_operable_v(T) == is_integral_v(T) \/ is_custom_operable_v(T)

\* is_xoperable<T1, T2>()
is_xoperable_AnyCustomPair(T1, T2) ==
    IF is_custom_operable_v(T1) THEN is_operable_v(T2)
    ELSE IF is_custom_operable_v(T2) THEN is_integral_v(T1)
    ELSE FALSE
is_xoperable(T1, T2) ==
    IF is_custom_operable_v(T1) THEN is_integral_v(T2) \/ is_same_v(T1, T2)
    ELSE IF is_custom_operable_v(T2) THEN is_integral_v(T1)
    ELSE FALSE

\* resolve_alias<T1>::type: the identity unless the client specialises it.
resolve_alias(T) == IF T = "AliasA" THEN "A" ELSE T

\* std::remove_cvref_t<T1>
remove_cvref_t(T) == T.base

\* strip_operable_t<T1>
strip_operable_t_NoAlias(T) == remove_cvref_t(T)
strip_operable_t(T) == resolve_alias(remove_cvref_t(T))

\* xop_result<T1, T2>: whether the specialisation exists (its enable_if), and its
\* member type.
xop_result_exists(T1, T2) == is_xoperable(strip_operable_t(T1), strip_operable_t(T2))

xop_result_FirstType(T1, T2) == strip_operable_t(T1)
xop_result(T1, T2) ==
    IF is_custom_operable_v(strip_operable_t(T1))
    THEN strip_operable_t(T1)
    ELSE strip_operable_t(T2)

NoType == "void"
NoRes == [status |-> "none", T1 |-> NoType, T2 |-> NoType, exists |-> FALSE,
          type |-> NoType]

\* The resolution a use of xop_result<T1, T2> performs.
Resolution(T1, T2) ==
    [status |-> "resolved", T1 |-> T1, T2 |-> T2,
     exists |-> xop_result_exists(T1, T2),
     type |-> IF xop_result_exists(T1, T2) THEN xop_result(T1, T2) ELSE NoType]

\* typename xop_result<T1, T2>::type
Resolve ==
    /\ res.status = "asked"
    /\ res' = Resolution(res.T1, res.T2)
    /\ UNCHANGED <<value, origin, aborted, ret, objs, call>>

NextTypes == Resolve

\* ------------------------------------------------------------ operators
\* The DEFINE_OPERATION instances in source order. Per overload: its name, the
\* number of its function parameters, the place of the operator id in the braced
\* initialiser (first: the unary constructor form, between the operands: the
\* binary one), the operator id, and each std::forward<Tn>( p ) it passes.
CatalogueRows ==
    <<[syntax |-> "operator~", params |-> 1, form |-> "unary", id |-> "bitwise_not",
       args |-> <<[fwd |-> "T1", arg |-> "a"]>>],
      [syntax |-> "operator&", params |-> 2, form |-> "binary", id |-> "bitwise_and",
       args |-> <<[fwd |-> "T1", arg |-> "a"], [fwd |-> "T2", arg |-> "b"]>>],
      [syntax |-> "operator|", params |-> 2, form |-> "binary", id |-> "bitwise_or",
       args |-> <<[fwd |-> "T1", arg |-> "a"], [fwd |-> "T2", arg |-> "b"]>>],
      [syntax |-> "operator^", params |-> 2, form |-> "binary", id |-> "bitwise_xor",
       args |-> <<[fwd |-> "T1", arg |-> "a"], [fwd |-> "T2", arg |-> "b"]>>],
      [syntax |-> "operator>>", params |-> 2, form |-> "binary", id |-> "shift_right",
       args |-> <<[fwd |-> "T1", arg |-> "a"], [fwd |-> "T2", arg |-> "b"]>>],
      [syntax |-> "operator<<", params |-> 2, form |-> "binary", id |-> "shift_left",
       args |-> <<[fwd |-> "T1", arg |-> "a"], [fwd |-> "T2", arg |-> "b"]>>],
      [syntax |-> "__rotr", params |-> 2, form |-> "binary", id |-> "rotate_right",
       args |-> <<[fwd |-> "T1", arg |-> "a"], [fwd |-> "T2", arg |-> "b"]>>],
      [syntax |-> "__rotl", params |-> 2, form |-> "binary", id |-> "rotate_left",
       args |-> <<[fwd |-> "T1", arg |-> "a"], [fwd |-> "T2", arg |-> "b"]>>],
      [syntax |-> "operator-", params |-> 1, form |-> "unary", id |-> "negate",
       args |-> <<[fwd |-> "T1", arg |-> "a"]>>],
      [syntax |-> "operator+", params |-> 2, form |-> "binary", id |-> "add",
       args |-> <<[fwd |-> "T1", arg |-> "a"], [fwd |-> "T2", arg |-> "b"]>>],
      [syntax |-> "operator-", params |-> 2, form |-> "binary", id |-> "substract",
       args |-> <<[fwd |-> "T1", arg |-> "a"], [fwd |-> "T2", arg |-> "b"]>>],
      [syntax |-> "imulhi", params |-> 2, form |-> "binary", id |-> "multiply_high",
       args |-> <<[fwd |-> "T1", arg |-> "a"], [fwd |-> "T2", arg |-> "b"]>>],
      [syntax |-> "operator*", params |-> 2, form |-> "binary", id |-> "multiply",
       args |-> <<[fwd |-> "T1", arg |-> "a"], [fwd |-> "T2", arg |-> "b"]>>],
      [syntax |-> "operator/", params |-> 2, form |-> "binary", id |-> "divide",
       args |-> <<[fwd |-> "T1", arg |-> "a"], [fwd |-> "T2", arg |-> "b"]>>],
      [syntax |-> "operator%", params |-> 2, form |-> "binary", id |-> "remainder",
       args |-> <<[fwd |-> "T1", arg |-> "a"], [fwd |-> "T2", arg |-> "b"]>>],
      [syntax |-> "umulhi", params |-> 2, form |-> "binary", id |-> "umultiply_high",
       args |-> <<[fwd |-> "T1", arg |-> "a"], [fwd |-> "T2", arg |-> "b"]>>],
      [syntax |-> "umul", params |-> 2, form |-> "binary", id |-> "umultiply",
       args |-> <<[fwd |-> "T1", arg |-> "a"], [fwd |-> "T2", arg |-> "b"]>>],
      [syntax |-> "udiv", params |-> 2, form |-> "binary", id |-> "udivide",
       args |-> <<[fwd |-> "T1", arg |-> "a"], [fwd |-> "T2", arg |-> "b"]>>],
      [syntax |-> "urem", params |-> 2, form |-> "binary", id |-> "uremainder",
       args |-> <<[fwd |-> "T1", arg |-> "a"], [fwd |-> "T2", arg |-> "b"]>>],
      [syntax |-> "__ucast", params |-> 2, form |-> "binary", id |-> "ucast",
       args |-> <<[fwd |-> "T1", arg |-> "a"], [fwd |-> "T2", arg |-> "b"]>>],
      [syntax |-> "__cast", params |-> 2, form |-> "binary", id |-> "cast",
       args |-> <<[fwd |-> "T1", arg |-> "a"], [fwd |-> "T2", arg |-> "b"]>>],
      [syntax |-> "__popcnt", params |-> 1, form |-> "unary", id |-> "popcnt",
       args |-> <<[fwd |-> "T2", arg |-> "a"]>>],
      [syntax |-> "__bt", params |-> 2, form |-> "binary", id |-> "bit_test",
       args |-> <<[fwd |-> "T1", arg |-> "a"], [fwd |-> "T2", arg |-> "b"]>>],
      [syntax |-> "__mask", params |-> 1, form |-> "unary", id |-> "mask",
       args |-> <<[fwd |-> "T2", arg |-> "a"]>>],
      [syntax |-> "__bcnt", params |-> 1, form |-> "unary", id |-> "bit_count",
       args |-> <<[fwd |-> "T2", arg |-> "a"]>>],
      [syntax |-> "__if", params |-> 2, form |-> "binary", id |-> "value_if",
       args |-> <<[fwd |-> "T1", arg |-> "a"], [fwd |-> "T2", arg |-> "b"]>>],
      [syntax |-> "__max", params |-> 2, form |-> "binary", id |-> "max_value",
       args |-> <<[fwd |-> "T1", arg |-> "a"], [fwd |-> "T2", arg |-> "b"]>>],
      [syntax |-> "__min", params |-> 2, form |-> "binary", id |-> "min_value",
       args |-> <<[fwd |-> "T1", arg |-> "a"], [fwd |-> "T2", arg |-> "b"]>>],
      [syntax |-> "__umax", params |-> 2, form |-> "binary", id |-> "umax_value",
       args |-> <<[fwd |-> "T1", arg |-> "a"], [fwd |-> "T2", arg |-> "b"]>>],
      [syntax |-> "__umin", params |-> 2, form |-> "binary", id |-> "umin_value",
       args |-> <<[fwd |-> "T1", arg |-> "a"], [fwd |-> "T2", arg |-> "b"]>>],
      [syntax |-> "operator>", params |-> 2, form |-> "binary", id |-> "greater",
       args |-> <<[fwd |-> "T1", arg |-> "a"], [fwd |-> "T2", arg |-> "b"]>>],
      [syntax |-> "operator>=", params |-> 2, form |-> "binary", id |-> "greater_eq",
       args |-> <<[fwd |-> "T1", arg |-> "a"], [fwd |-> "T2", arg |-> "b"]>>],
      [syntax |-> "operator==", params |-> 2, form |-> "binary", id |-> "equal",
       args |-> <<[fwd |-> "T1", arg |-> "a"], [fwd |-> "T2", arg |-> "b"]>>],
      [syntax |-> "operator!=", params |-> 2, form |-> "binary", id |-> "not_equal",
       args |-> <<[fwd |-> "T1", arg |-> "a"], [fwd |-> "T2", arg |-> "b"]>>],
      [syntax |-> "operator<=", params |-> 2, form |-> "binary", id |-> "less_eq",
       args |-> <<[fwd |-> "T1", arg |-> "a"], [fwd |-> "T2", arg |-> "b"]>>],
      [syntax |-> "operator<", params |-> 2, form |-> "binary", id |-> "less",
       args |-> <<[fwd |-> "T1", arg |-> "a"], [fwd |-> "T2", arg |-> "b"]>>],
      [syntax |-> "__ugreat", params |-> 2, form |-> "binary", id |-> "ugreater",
       args |-> <<[fwd |-> "T1", arg |-> "a"], [fwd |-> "T2", arg |-> "b"]>>],
      [syntax |-> "__ugreat_eq", params |-> 2, form |-> "binary", id |-> "ugreater_eq",
       args |-> <<[fwd |-> "T1", arg |-> "a"], [fwd |-> "T2", arg |-> "b"]>>],
      [syntax |-> "__uless_eq", params |-> 2, form |-> "binary", id |-> "uless_eq",
       args |-> <<[fwd |-> "T1", arg |-> "a"], [fwd |-> "T2", arg |-> "b"]>>],
      [syntax |-> "__uless", params |-> 2, form |-> "binary", id |-> "uless",
       args |-> <<[fwd |-> "T1", arg |-> "a"], [fwd |-> "T2", arg |-> "b"]>>]>>

Overloads_UmulTwice ==
    [i \in DOMAIN CatalogueRows |->
        IF CatalogueRows[i].syntax = "umulhi"
        THEN [CatalogueRows[i] EXCEPT !.id = "umultiply"]
        ELSE CatalogueRows[i]]
Overloads == CatalogueRows

\* The caller's objects and their types.
Objects == {"x", "y", "z", "al", "d", "e", "s", "f", "n", "u", "b"}

TypeOf(o) ==
    CASE o \in {"x", "y"} -> "A"
      [] o = "z" -> "B"
      [] o = "al" -> "AliasA"
      [] o = "d" -> "D"
      [] o = "e" -> "E"
      [] o = "s" -> "S"
      [] o = "f" -> "double"
      [] o = "n" -> "int32_t"
      [] o = "u" -> "uint64_t"
      [] o = "b" -> "bool"

\* An operand as the caller writes it: an object named (lvalue), a const object
\* named (const_lvalue), or a temporary or std::move( object ) (rvalue).
Operands == [obj : Objects, cat : {"lvalue", "const_lvalue", "rvalue"}]

\* The template argument deduced for a forwarding reference T&& bound to e.
Deduced(e) ==
    [base |-> TypeOf(e.obj), const |-> e.cat = "const_lvalue",
     ref |-> IF e.cat = "rvalue" THEN "" ELSE "&"]

\* std::forward<T>( p ), p the parameter bound to the object o: an lvalue when T is
\* an lvalue reference, an rvalue otherwise.
forward(T, o) ==
    [obj |-> o,
     cat |-> IF T.ref = "&"
             THEN (IF T.const THEN "const_lvalue" ELSE "lvalue")
             ELSE (IF T.const THEN "const_rvalue" ELSE "rvalue")]

\* The explicit second template arguments with which a one-parameter overload
\* called on e still compiles: std::forward<T2>( a ) must bind a.
ExplicitT2(e) ==
    {T \in Types : T.base = TypeOf(e.obj) /\ (Deduced(e).const => T.const)}

NoNode == [type |-> NoType, form |-> "none", id |-> "none", operands |-> <<>>]

\* The derived type's constructors, by contract base_class( operator_desc, const
\* base_class& ) and base_class( const base_class&, operator_desc, const
\* base_class& ), each optionally taking T&&: the node built records the operator
\* and what each operand held, and an operand of the node's own type received as a
\* non-const rvalue is moved from.
derived_ctor(c, pre) ==
    [node |-> [type |-> c.type, form |-> c.form, id |-> c.id,
               operands |-> [i \in DOMAIN c.args |->
                               [obj |-> c.args[i].obj, state |-> pre[c.args[i].obj]]]],
     moved |-> {c.args[i].obj : i \in {j \in DOMAIN c.args :
                    c.args[j].cat = "rvalue" /\ TypeOf(c.args[j].obj) = c.type}}]

\* One DEFINE_OPERATION instance ov instantiated with <T1, T2> on the operands
\* ops: whether result_t exists, result_t, and the braced initialiser returned.
instantiate_OperandsSwapped(ov, T1, T2, ops) ==
    [exists |-> xop_result_exists(T1, T2),
     ctor |-> [type |-> xop_result(T1, T2), form |-> ov.form, id |-> ov.id,
               args |-> [i \in DOMAIN ov.args |->
                   LET k == Len(ov.args) + 1 - i
                   IN  forward(IF ov.args[k].fwd = "T1" THEN T1 ELSE T2,
                               IF ov.args[k].arg = "a" THEN ops[1].obj ELSE ops[2].obj)]]]
instantiate_CastsInUnaryForm(ov, T1, T2, ops) ==
    [exists |-> xop_result_exists(T1, T2),
     ctor |-> [type |-> xop_result(T1, T2),
               form |-> IF ov.id \in {"ucast", "cast"} THEN "unary" ELSE ov.form,
               id |-> ov.id,
               args |-> [i \in DOMAIN ov.args |->
                   forward(IF ov.args[i].fwd = "T1" THEN T1 ELSE T2,
                           IF ov.args[i].arg = "a" THEN ops[1].obj ELSE ops[2].obj)]]]
instantiate(ov, T1, T2, ops) ==
    [exists |-> xop_result_exists(T1, T2),
     ctor |-> [type |-> xop_result(T1, T2), form |-> ov.form, id |-> ov.id,
               args |-> [i \in DOMAIN ov.args |->
                   forward(IF ov.args[i].fwd = "T1" THEN T1 ELSE T2,
                           IF ov.args[i].arg = "a" THEN ops[1].obj ELSE ops[2].obj)]]]

\* An expression the caller wrote: overload k of the catalogue on one or two
\* operands, the second template argument deduced or, for a one-parameter
\* overload, defaulted to T1 or given explicitly.
Pending(k, ops, T1, T2) ==
    [status |-> "pending", ov |-> k, ops |-> ops, T1 |-> T1, T2 |-> T2,
     ctor |-> <<>>, result |-> NoNode]

Live == [o \in Objects |-> "live"]

\* The call of the pending expression: overload resolution finds the overload
\* only when result_t exists; the overload returns the value its braced
\* initialiser constructs.
Evaluate ==
    LET ov == Overloads[call.ov]
        inst == instantiate(ov, call.T1, call.T2, call.ops)
        made == derived_ctor(inst.ctor, objs)
    IN  /\ res' = Resolution(call.T1, call.T2)
        /\ IF inst.exists
           THEN /\ call' = [call EXCEPT !.status = "returned", !.ctor = <<inst.ctor>>,
                                        !.result = made.node]
                /\ objs' = [o \in Objects |-> IF o \in made.moved THEN "moved" ELSE objs[o]]
           ELSE /\ call' = [call EXCEPT !.status = "no_overload"]
                /\ objs' = objs

\* A one-parameter overload called: op( a )
Unary ==
    /\ call.status = "pending"
    /\ Overloads[call.ov].params = 1
    /\ Evaluate
    /\ UNCHANGED <<value, origin, aborted, ret>>

\* A two-parameter overload called: a op b, op( a, b )
Binary ==
    /\ call.status = "pending"
    /\ Overloads[call.ov].params = 2
    /\ Evaluate
    /\ UNCHANGED <<value, origin, aborted, ret>>

NextAlgebra == Unary \/ Binary

\* ------------------------------------------------------------ specifications
NoCall == [status |-> "none", ov |-> 0, ops |-> <<>>, T1 |-> NoType, T2 |-> NoType,
           ctor |-> <<>>, result |-> NoNode]

\* A wrapper after its construction.
InitWrapper ==
    /\ \/ \E a \in NativeInts, n \in Widths : Constructed(a, n)
       \/ \E a \in NativeInts : ConstructedNatural(a)
       \/ ConstructedDefault
       \/ \E bv \in BitVectors : ConstructedDerived(bv)
    /\ aborted = FALSE
    /\ res = NoRes
    /\ objs = Live
    /\ call = NoCall

\* A pair of types whose resolution is asked for.
InitTypes ==
    /\ ConstructedDefault
    /\ aborted = FALSE
    /\ \E T1 \in Types, T2 \in Types : res = [NoRes EXCEPT !.status = "asked", !.T1 = T1, !.T2 = T2]
    /\ objs = Live
    /\ call = NoCall

\* An operator expression about to be evaluated, every object just constructed.
InitAlgebra ==
    /\ ConstructedDefault
    /\ aborted = FALSE
    /\ res = NoRes
    /\ objs = Live
    /\ \E k \in DOMAIN Overloads :
          IF Overloads[k].params = 1
          THEN \E e \in Operands : \E T \in {Deduced(e)} \cup ExplicitT2(e) :
                  call = Pending(k, <<e>>, Deduced(e), T)
          ELSE \E e1 \in Operands, e2 \in Operands :
                  call = Pending(k, <<e1, e2>>, Deduced(e1), Deduced(e2))

\* The wrapper: a constructed wrapper is resized and read.
SpecWrapper == InitWrapper /\ [][NextWrapper]_vars

\* The algebra: a pair of types is resolved, or one operator expression is evaluated.
SpecAlgebra == (InitTypes \/ InitAlgebra) /\ [][NextTypes \/ NextAlgebra]_vars

\* ------------------------------------------------------------ the data model
\* The kinds of type the specification speaks of, for the client program above.
CustomOperandTypes == {"A", "B"}

Canonical(T) == IF T.base = "AliasA" THEN "A" ELSE T.base

Kind(U) ==
    IF U \in IntTypes THEN "native"
    ELSE IF U \in CustomOperandTypes THEN "custom"
    ELSE "other"

CrossOperable(U1, U2) ==
    \/ Kind(U1) = "custom" /\ (Kind(U2) = "native" \/ U2 = U1)
    \/ Kind(U2) = "custom" /\ (Kind(U1) = "native" \/ U1 = U2)

\* The OperatorId enumeration (operators.hpp), by group.
UnaryIds == {"bitwise_not", "negate", "popcnt", "mask", "bit_count", "ucast", "cast"}
ArithmeticIds ==
    {"add", "substract", "multiply", "multiply_high", "umultiply", "umultiply_high",
     "divide", "remainder", "udivide", "uremainder"}
BitwiseIds ==
    {"bitwise_and", "bitwise_or", "bitwise_xor", "shift_left", "shift_right",
     "rotate_left", "rotate_right", "bit_test"}
ComparisonIds == {"greater", "greater_eq", "equal", "not_equal", "less_eq", "less"}
UnsignedComparisonIds == {"ugreater", "ugreater_eq", "uless_eq", "uless"}
SelectionIds == {"value_if", "max_value", "min_value", "umax_value", "umin_value"}

OperatorId ==
    UnaryIds \cup ArithmeticIds \cup BitwiseIds \cup ComparisonIds
        \cup UnsignedComparisonIds \cup SelectionIds

\* The operator each surface syntax denotes, by name and number of operands.
Denotes(syntax, n) ==
    CASE syntax = "operator~" /\ n = 1 -> "bitwise_not"
      [] syntax = "operator-" /\ n = 1 -> "negate"
      [] syntax = "__popcnt" /\ n = 1 -> "popcnt"
      [] syntax = "__mask" /\ n = 1 -> "mask"
      [] syntax = "__bcnt" /\ n = 1 -> "bit_count"
      [] syntax = "__ucast" /\ n = 2 -> "ucast"
      [] syntax = "__cast" /\ n = 2 -> "cast"
      [] syntax = "operator+" /\ n = 2 -> "add"
      [] syntax = "operator-" /\ n = 2 -> "substract"
      [] syntax = "operator*" /\ n = 2 -> "multiply"
      [] syntax = "imulhi" /\ n = 2 -> "multiply_high"
      [] syntax = "umul" /\ n = 2 -> "umultiply"
      [] syntax = "umulhi" /\ n = 2 -> "umultiply_high"
      [] syntax = "operator/" /\ n = 2 -> "divide"
      [] syntax = "operator%" /\ n = 2 -> "remainder"
      [] syntax = "udiv" /\ n = 2 -> "udivide"
      [] syntax = "urem" /\ n = 2 -> "uremainder"
      [] syntax = "operator&" /\ n = 2 -> "bitwise_and"
      [] syntax = "operator|" /\ n = 2 -> "bitwise_or"
      [] syntax = "operator^" /\ n = 2 -> "bitwise_xor"
      [] syntax = "operator<<" /\ n = 2 -> "shift_left"
      [] syntax = "operator>>" /\ n = 2 -> "shift_right"
      [] syntax = "__rotl" /\ n = 2 -> "rotate_left"
      [] syntax = "__rotr" /\ n = 2 -> "rotate_right"
      [] syntax = "__bt" /\ n = 2 -> "bit_test"
      [] syntax = "operator>" /\ n = 2 -> "greater"
      [] syntax = "operator>=" /\ n = 2 -> "greater_eq"
      [] syntax = "operator==" /\ n = 2 -> "equal"
      [] syntax = "operator!=" /\ n = 2 -> "not_equal"
      [] syntax = "operator<=" /\ n = 2 -> "less_eq"
      [] syntax = "operator<" /\ n = 2 -> "less"
      [] syntax = "__ugreat" /\ n = 2 -> "ugreater"
      [] syntax = "__ugreat_eq" /\ n = 2 -> "ugreater_eq"
      [] syntax = "__uless_eq" /\ n = 2 -> "uless_eq"
      [] syntax = "__uless" /\ n = 2 -> "uless"
      [] syntax = "__if" /\ n = 2 -> "value_if"
      [] syntax = "__max" /\ n = 2 -> "max_value"
      [] syntax = "__min" /\ n = 2 -> "min_value"
      [] syntax = "__umax" /\ n = 2 -> "umax_value"
      [] syntax = "__umin" /\ n = 2 -> "umin_value"
      [] OTHER -> "none"

Called == call.status \in {"returned", "no_overload"}
Returned == call.status = "returned"
TheOverload == Overloads[call.ov]

\* ------------------------------------------------------------ claims

\* C1: a pair of types, qualifiers stripped and aliases resolved, is
\* cross-operable exactly when one side is a custom operand type and the other a
\* native integer or the same custom type; an operator applied to any other pair
\* (two different custom types, two native integers) finds no overload, calls no
\* constructor and produces no value.
C1_CrossOperableIff ==
    /\ res.status = "resolved" =>
          (res.exists <=> CrossOperable(Canonical(res.T1), Canonical(res.T2)))
    /\ Called =>
          /\ Returned <=> CrossOperable(Canonical(call.T1), Canonical(call.T2))
          /\ ~Returned => call.ctor = <<>> /\ call.result = NoNode /\ objs = Live
    /\ res.status = "resolved"
          /\ Kind(Canonical(res.T1)) = Kind(Canonical(res.T2))
          /\ Canonical(res.T1) # Canonical(res.T2)
          => ~res.exists

\* An operator applied to two different custom operand types was rejected.
C1_Witness ==
    /\ call.status = "no_overload"
    /\ Len(call.ops) = 2
    /\ TypeOf(call.ops[1].obj) = "A"
    /\ TypeOf(call.ops[2].obj) = "B"

\* C2: the result type of a cross-operable pair is whichever stripped, resolved
\* type is the custom operand type (T1's when T1 is custom, else T2's): always a
\* custom operand type, and the same for (T1, T2) and (T2, T1).
C2_ResultTypeIsTheCustomSide ==
    res.status = "resolved" /\ res.exists =>
        /\ res.type = IF Kind(Canonical(res.T1)) = "custom"
                      THEN Canonical(res.T1) ELSE Canonical(res.T2)
        /\ Kind(res.type) = "custom"
        /\ Resolution(res.T2, res.T1).exists
        /\ Resolution(res.T2, res.T1).type = res.type
        /\ Returned => call.result.type = res.type

\* A native integer on the left and a custom operand type on the right resolved.
C2_Witness ==
    /\ res.status = "resolved"
    /\ res.exists
    /\ Kind(Canonical(res.T1)) = "native"
    /\ res.type = "A"

\* C3: an overload applied to cross-operable operands calls the result type's
\* constructor once, with the operator id its syntax denotes and the operands in
\* the caller's order, and returns the value that constructor builds.
C3_OneConstructorCall ==
    Returned =>
        /\ Len(call.ctor) = 1
        /\ call.ctor[1].id = Denotes(TheOverload.syntax, Len(call.ops))
        /\ call.ctor[1].type = res.type
        /\ Len(call.ctor[1].args) = Len(call.ops)
        /\ \A i \in DOMAIN call.ops : call.ctor[1].args[i].obj = call.ops[i].obj
        /\ call.result =
              [type |-> res.type,
               form |-> call.ctor[1].form,
               id |-> Denotes(TheOverload.syntax, Len(call.ops)),
               operands |-> [i \in DOMAIN call.ops |->
                               [obj |-> call.ops[i].obj, state |-> "live"]]]

\* n - x was evaluated, the native integer on the left.
C3_Witness ==
    /\ Returned
    /\ TheOverload.syntax = "operator-"
    /\ Len(call.ops) = 2
    /\ call.ops[1].obj = "n"
    /\ call.ops[2].obj = "x"

\* C4 as stated: exactly bitwise-not, negate, population-count, mask, bit-count,
\* unsigned-cast and signed-cast take one operand and use the unary constructor
\* form; every other operator takes two and uses the binary form.
C4_AsStated ==
    Returned =>
        IF call.ctor[1].id \in UnaryIds
        THEN Len(call.ops) = 1 /\ call.ctor[1].form = "unary"
        ELSE Len(call.ops) = 2 /\ call.ctor[1].form = "binary"

\* C4 as amended: exactly bitwise-not, negate, population-count, mask and
\* bit-count take one operand and use the unary constructor form; every other
\* operator, unsigned-cast and signed-cast among them, takes two operands and
\* uses the binary form.
C4_CastsAreBinary ==
    Returned =>
        IF call.ctor[1].id \in UnaryIds \ {"ucast", "cast"}
        THEN /\ Len(call.ops) = 1
             /\ call.ctor[1].form = "unary"
             /\ Len(call.ctor[1].args) = 1
        ELSE /\ Len(call.ops) = 2
             /\ call.ctor[1].form = "binary"
             /\ Len(call.ctor[1].args) = 2

\* __ucast( x, n ) was evaluated.
C4_Witness ==
    /\ Returned
    /\ call.ctor[1].id = "ucast"
    /\ Len(call.ops) = 2

\* The width a construction declared.
DeclaredWidth == IF ret.op = "operable" THEN ret.n ELSE NaturalWidth(ret.a.type)

\* C5: a wrapper constructed from the native integer a with declared width w
\* (by default the natural width of a's type) has size w, is constant, and
\* collapses to a truncated to w bits.
C5_ConstructedFromInteger ==
    ret.op \in {"operable", "operable_natural"} =>
        /\ size(value) = DeclaredWidth
        /\ is_constant(value)
        /\ unknown_mask(value) = {}
        /\ known_one(value) = Truncated(ret.a, DeclaredWidth)
        /\ get_as(value, FALSE) = [type |-> "uint64_t", bits |-> Truncated(ret.a, DeclaredWidth)]

\* A negative int8_t was given a width of 16, wider than its own.
C5_Witness ==
    /\ ret.op = "operable"
    /\ ret.a = [type |-> "int8_t", bits |-> fill(8)]
    /\ ret.n = 16
    /\ known_one(value) = fill(16)

\* C6: resize on a wrapper with an unknown bit is fatal and leaves the width,
\* the known mask, the known ones and the known zeros as they were.
C6_ResizeOfUnknownIsFatal ==
    ret.op = "resize" /\ ~is_constant(ret.pre) =>
        /\ aborted
        /\ value = ret.pre
        /\ size(value) = size(ret.pre)
        /\ known_mask(value) = known_mask(ret.pre)
        /\ known_one(value) = known_one(ret.pre)
        /\ known_zero(value) = known_zero(ret.pre)

\* A wrapper with an unknown bit was resized to another width.
C6_Witness ==
    /\ ret.op = "resize"
    /\ aborted
    /\ unknown_mask(value) # {}
    /\ ret.n # size(value)

\* The concrete value a resize of the fully known old value must produce.
Extended(old, n, sext) ==
    IF n > old.bit_count /\ sext /\ old.bit_count > 0
           /\ (old.bit_count - 1) \in old.known_one
    THEN old.known_one \cup (old.bit_count..(n - 1))
    ELSE IF n < old.bit_count THEN {i \in old.known_one : i < n}
    ELSE old.known_one

\* C7: resize( n, sext ) of a fully known wrapper leaves it fully known with size
\* n: sign-extended when n is larger and sext is set, zero-extended when n is
\* larger and sext is not, truncated to the low n bits when n is smaller. A
\* wrapper constructed from an integer stays fully known under resize.
C7_ResizeOfKnown ==
    /\ ret.op = "resize" /\ is_constant(ret.pre) =>
          /\ ~aborted
          /\ is_constant(value)
          /\ size(value) = ret.n
          /\ known_one(value) = Extended(ret.pre, ret.n, ret.flag)
          /\ known_zero(value) = fill(ret.n) \ Extended(ret.pre, ret.n, ret.flag)
    /\ origin = "integer" => is_constant(value) /\ ~aborted

\* A negative value built from an integer was sign-extended to a larger width.
C7_Witness ==
    /\ ret.op = "resize"
    /\ origin = "integer"
    /\ ret.flag
    /\ ret.n > size(ret.pre)
    /\ (size(ret.pre) - 1) \in known_one(ret.pre)
    /\ (ret.n - 1) \in known_one(value)

\* The fully known value bv reinterpreted as the integer type T.
Reinterpreted(bv, T) ==
    [type |-> T,
     bits |-> IF T = "bool" THEN (IF bv.known_one = {} THEN {} ELSE {0})
              ELSE {i \in fill(NaturalWidth(T)) :
                      IF i < bv.bit_count THEN i \in bv.known_one
                      ELSE is_signed(T) /\ bv.bit_count > 0
                             /\ (bv.bit_count - 1) \in bv.known_one}]

\* The type a collapse asked for.
AskedType ==
    IF ret.op = "get" THEN ret.a.type
    ELSE IF ret.flag THEN "int64_t" ELSE "uint64_t"

ByReference ==
    {call.ops[i].obj : i \in DOMAIN call.ops} \
    {call.ops[i].obj : i \in {j \in DOMAIN call.ops : call.ops[j].cat = "rvalue"}}

\* C9: the value an operator constructs does not depend on whether the operands
\* were supplied as temporaries or by reference, and an operand supplied by
\* reference is left unchanged by the call.
C9_ForwardingIsFaithful ==
    Returned =>
        /\ call.result.operands =
              [i \in DOMAIN call.ops |-> [obj |-> call.ops[i].obj, state |-> "live"]]
        /\ \A o \in ByReference : objs[o] = "live"

====
